---------------------------- MODULE Spec2Model ----------------------------
(***************************************************************************)
(* highway_merge.py: merging of a baseline road network (OSM) with a       *)
(* reference road network (NVDB) under the four commands replace, offset,  *)
(* new and tag.                                                            *)
(*                                                                         *)
(* Conventions of the model                                                *)
(*  - All nodes lie on one meridian.  A node's 'lat' is its position on    *)
(*    that meridian in whole metres, so distance() reduces to the          *)
(*    difference of the two positions; sums and means of distances are     *)
(*    exact rationals (the program uses floats).                           *)
(*  - An XML element is a record; an element's children keep their order   *)
(*    in sequences.  An absent attribute or dictionary value is None.      *)
(*  - A Python dict with optional keys is a record whose DOMAIN tells      *)
(*    which keys are present.                                              *)
(*  - nd elements carry no action attribute, every NVDB way carries a      *)
(*    highway tag and only NVDB ways carry nvdb:id and nvdb:date tags, as  *)
(*    in the files the program is run on.                                  *)
(***************************************************************************)
EXTENDS Integers, Sequences, FiniteSets, TLC

VARIABLES
    command,        \* sys.argv[1] without the dash
    merge_all,      \* configuration flag (line 24)
    root_osm,       \* the OSM element tree, mutated in place, then written
    root_nvdb,      \* the NVDB element tree
    nodes_osm,      \* node id -> [used, lat]       (deleted nodes left out)
    nodes_nvdb,     \* node id -> [used, lat]
    ways_osm,       \* way id -> dict
    ways_nvdb,      \* way id -> dict
    keys_osm,       \* insertion order of ways_osm
    keys_nvdb,      \* insertion order of ways_nvdb
    count_swap,     \* number of accepted matches
    total_distance, \* sum of the accepted mean distances
    best_id,        \* result of the latest candidate scan
    best_distance,  \* its mean distance
    log,            \* history of the candidate scans (not program state)
    pc,             \* phase of __main__ ("KeyError", ... when it has raised)
    i               \* elements of the current loop already handled

vars == <<command, merge_all, root_osm, root_nvdb, nodes_osm, nodes_nvdb,
          ways_osm, ways_nvdb, keys_osm, keys_nvdb, count_swap,
          total_distance, best_id, best_distance, log, pc, i>>

None == "None"

-----------------------------------------------------------------------------
(* Configuration, lines 23-50 *)

margin == 25

margin_new == 8

min_margin == 5

match_factor == 5

min_nodes == 2

avoid_highway == {"path", "bus_stop", "rest_area", "platform", "construction", "proposed"}

avoid_tags == {"area", "railway", "piste:type", "snowmobile", "turn:lanes",
               "turn:lanes:forward", "turn:lanes:backward", "destination",
               "destination:forward", "destination:backward", "destination:ref",
               "destination:ref:forward", "destination:ref:backward",
               "destination:symbol", "destination:symbol:forward",
               "destination:symbol:backward", "mtb:scale", "class:bicycle:mtb"}

avoid_merge == {"ref", "name", "maxspeed", "oneway", "junction", "foot", "bridge",
                "tunnel", "layer", "source"}

avoid_highway_tags == {"cycleway", "footway", "steps"}

merge_tags == {"ref", "name", "maxspeed", "maxheight", "bridge", "tunnel", "layer"}

replace_highway == {}

Commands == {"replace", "offset", "new", "tag"}

-----------------------------------------------------------------------------
(* Arithmetic *)

Abs(x) == IF x < 0 THEN -x ELSE x

Min2(a, b) == IF a < b THEN a ELSE b

Max2(a, b) == IF a > b THEN a ELSE b

RECURSIVE GCD(_, _)
GCD(a, b) == IF b = 0 THEN a ELSE GCD(b, a % b)

\* A float that is a quotient of integers, kept exactly and in lowest terms.
Rat(n, d) == LET g == GCD(n, d) IN [num |-> n \div g, den |-> d \div g]

RatLess(a, b) == a.num * b.den < b.num * a.den

RatAdd(a, b) == Rat(a.num * b.den + b.num * a.den, a.den * b.den)

Range(s) == {s[k] : k \in 1..Len(s)}

\* distance(), lines 65-70, for two points of one meridian: x = 0 and
\* 6371000 * |lat2 - lat1| in radians is the difference in metres.
distance(n1_lat, n2_lat) == Abs(n2_lat - n1_lat)

\* Metres per degree of latitude in distance(): 6371000 * pi / 180.
MetresPerDegree == 111194

\* Degrees of latitude per metre in the bounding boxes is 1 / 111500.
BoxDegree == 111500

\* A latitude bound of a bounding box, lines 207-208 and 268-269, in units of
\* 1 / (MetresPerDegree * BoxDegree) degree.
BoxMin(lat) == lat * BoxDegree - margin * MetresPerDegree

BoxMax(lat) == lat * BoxDegree + margin * MetresPerDegree


-----------------------------------------------------------------------------
(* The input files.  A file holds a choice of ways out of a catalogue, in   *)
(* catalogue order, all live nodes, and the deleted nodes its ways refer to. *)

MaxOsmWays == 2

MaxNvdbWays == 2

Tag(k, v) == [k |-> k, v |-> v]

NodeElement(id, lat, action, tag) == [id |-> id, lat |-> lat, action |-> action, tag |-> tag]

WayElement(id, action, nd, tag) == [id |-> id, action |-> action, nd |-> nd, tag |-> tag]

\* Live OSM nodes: "9" is a tagged node no way uses, "10" carries only a
\* created_by tag.
OsmLiveNodes ==
    << NodeElement("1", 0, None, <<>>),
       NodeElement("2", 100, None, <<>>),
       NodeElement("3", 3, None, <<>>),
       NodeElement("4", 103, None, <<>>),
       NodeElement("5", 600, None, <<Tag("highway", "turning_circle")>>),
       NodeElement("7", 1, None, <<>>),
       NodeElement("8", 101, None, <<>>),
       NodeElement("9", 200, None, <<Tag("name", "x")>>),
       NodeElement("10", 210, None, <<Tag("created_by", "JOSM")>>) >>

\* Nodes deleted in the editor that produced the OSM file.
OsmDeletedNodes ==
    << NodeElement("d1", 50, "delete", <<>>),
       NodeElement("d2", 60, "delete", <<Tag("name", "y")>>) >>

OsmWayCatalogue ==
    << WayElement("w1", None, <<"1", "2">>,
           <<Tag("highway", "primary"), Tag("name", "A"), Tag("maxspeed", "50"), Tag("surface", "asphalt")>>),
       WayElement("w2", None, <<"3", "4">>,
           <<Tag("highway", "primary"), Tag("name", "B")>>),
       WayElement("w3", None, <<"7", "8">>,
           <<Tag("highway", "primary"), Tag("maxspeed", "60")>>),
       WayElement("w4", None, <<"1", "3", "4">>,
           <<Tag("highway", "primary"), Tag("oneway", "yes")>>),
       WayElement("w5", None, <<"1", "2", "5">>,
           <<Tag("highway", "primary")>>),
       WayElement("w6", None, <<"1", "2">>,
           <<Tag("highway", "cycleway")>>),
       WayElement("w7", None, <<"1", "2">>,
           <<Tag("highway", "path")>>),
       WayElement("w8", None, <<"3", "4">>,
           <<Tag("highway", "track"), Tag("area", "yes")>>),
       WayElement("w9", None, <<"1", "99", "2">>,
           <<Tag("highway", "primary"), Tag("name", "A")>>),
       WayElement("w10", "delete", <<"1", "2">>,
           <<Tag("highway", "primary")>>),
       WayElement("w11", "delete", <<"d1", "d2">>,
           <<Tag("highway", "primary")>>),
       WayElement("w12", None, <<"3", "4">>,
           <<Tag("name", "B")>>) >>

\* One relation, with a member node, a member way and a member not in the file.
OsmRelations ==
    << << [type |-> "node", ref |-> "1"], [type |-> "way", ref |-> "w1"],
          [type |-> "node", ref |-> "98"] >> >>

NvdbNodes ==
    << NodeElement("-1", 0, None, <<>>),
       NodeElement("-2", 100, None, <<>>),
       NodeElement("-3", 6, None, <<>>),
       NodeElement("-4", 106, None, <<>>),
       NodeElement("-5", 300, None, <<>>),
       NodeElement("-6", 620, None, <<>>) >>

NvdbWayCatalogue ==
    << WayElement("n1", None, <<"-1", "-2">>,
           <<Tag("highway", "primary"), Tag("name", "A"), Tag("maxspeed", "60"),
             Tag("ref", "E6"), Tag("oneway", "yes"), Tag("nvdb:id", "1")>>),
       WayElement("n2", None, <<"-3", "-4">>,
           <<Tag("highway", "primary"), Tag("name", "B"), Tag("nvdb:id", "2"), Tag("nvdb:date", "2020")>>),
       WayElement("n3", None, <<"-1", "-3", "-5">>,
           <<Tag("highway", "secondary"), Tag("maxspeed", "80")>>),
       WayElement("n4", None, <<"-1", "-2">>,
           <<Tag("highway", "cycleway"), Tag("name", "C")>>),
       WayElement("n5", None, <<"-1", "-2", "-6">>,
           <<Tag("highway", "primary"), Tag("name", "A")>>) >>

\* The elements of catalogue cat at the indices of S, in catalogue order.
RECURSIVE Pick(_, _, _)
Pick(cat, S, k) ==
    IF k > Len(cat) THEN <<>>
    ELSE (IF k \in S THEN <<cat[k]>> ELSE <<>>) \o Pick(cat, S, k + 1)

OsmFile(S) ==
    LET way == Pick(OsmWayCatalogue, S, 1)
        refs == UNION {Range(way[k].nd) : k \in 1..Len(way)}
        Referenced(n) == n.id \in refs
    IN  [node |-> OsmLiveNodes \o SelectSeq(OsmDeletedNodes, Referenced),
         way |-> way,
         relation |-> OsmRelations]

NvdbFile(S) ==
    [node |-> NvdbNodes, way |-> Pick(NvdbWayCatalogue, S, 1), relation |-> <<>>]

\* best_distance = 99999.0, lines 296, 372, 441
BestInit == Rat(99999, 1)

\* The state when both files are parsed, line 95.
Init ==
    /\ command \in Commands
    /\ merge_all \in BOOLEAN
    /\ \E S \in SUBSET (1..Len(OsmWayCatalogue)) :
          /\ Cardinality(S) <= MaxOsmWays
          /\ root_osm = OsmFile(S)
    /\ \E S \in SUBSET (1..Len(NvdbWayCatalogue)) :
          /\ Cardinality(S) <= MaxNvdbWays
          /\ root_nvdb = NvdbFile(S)
    /\ nodes_osm = <<>>
    /\ nodes_nvdb = <<>>
    /\ ways_osm = <<>>
    /\ ways_nvdb = <<>>
    /\ keys_osm = <<>>
    /\ keys_nvdb = <<>>
    /\ count_swap = 0
    /\ total_distance = Rat(0, 1)
    /\ best_id = None
    /\ best_distance = BestInit
    /\ log = <<>>
    /\ pc = "load"
    /\ i = 0

-----------------------------------------------------------------------------
(* Loading, lines 102-276 *)

Count(s, x) == Cardinality({k \in 1..Len(s) : s[k] = x})

\* The first child of the sequence with the given id.
Element(s, id) == s[CHOOSE k \in 1..Len(s) : s[k].id = id /\ \A j \in 1..(k - 1) : s[j].id # id]

HasTag(tag, key) == \E k \in 1..Len(tag) : tag[k].k = key

\* way.find("tag[@k='...']"): the first tag with the key.
FindTag(tag, key) == tag[CHOOSE k \in 1..Len(tag) : tag[k].k = key /\ \A j \in 1..(k - 1) : tag[j].k # key]

RECURSIVE PathLength(_, _)
\* The sum of the distances between consecutive nodes, lines 184-193.
PathLength(nodes, table) ==
    IF Len(nodes) < 2 THEN 0
    ELSE distance(table[nodes[1]].lat, table[nodes[2]].lat) + PathLength(Tail(nodes), table)

RECURSIVE MinLat(_, _)
MinLat(nodes, table) ==
    IF Len(nodes) = 1 THEN table[nodes[1]].lat
    ELSE Min2(table[nodes[1]].lat, MinLat(Tail(nodes), table))

RECURSIVE MaxLat(_, _)
MaxLat(nodes, table) ==
    IF Len(nodes) = 1 THEN table[nodes[1]].lat
    ELSE Max2(table[nodes[1]].lat, MaxLat(Tail(nodes), table))

IsDeleted(element) == element.action = "delete"

\* Lines 106-114: the nodes not deleted, none of them used yet.
LoadNodes(node) ==
    [id \in {node[k].id : k \in {j \in 1..Len(node) : ~IsDeleted(node[j])}} |->
        [used |-> 0, lat |-> Element(node, id).lat]]

\* Lines 115-118: a created_by tag is taken off a node that is not deleted.
StripCreatedBy(n) ==
    IF ~IsDeleted(n) /\ HasTag(n.tag, "created_by")
    THEN LET Keep(t) == t.k # "created_by"
         IN  [n EXCEPT !.tag = SelectSeq(n.tag, Keep), !.action = "modify"]
    ELSE n

\* All nd references of the ways, in file order.
RECURSIVE AllRefs(_)
AllRefs(way) == IF way = <<>> THEN <<>> ELSE Head(way).nd \o AllRefs(Tail(way))

RECURSIVE NodeMembers(_)
NodeMembers(relation) ==
    IF relation = <<>> THEN <<>>
    ELSE LET IsNode(m) == m.type = "node"
             Ref(ms) == [k \in 1..Len(ms) |-> ms[k].ref]
         IN  Ref(SelectSeq(Head(relation), IsNode)) \o NodeMembers(Tail(relation))

\* Lines 165-168 and 216-219: one use per nd and per relation member that is
\* in the node table.
CountUses(table, refs) ==
    [id \in DOMAIN table |-> [table[id] EXCEPT !.used = @ + Count(refs, id)]]

\* highway of an OSM way, lines 154-163: None without a highway tag.
OsmHighway(way) == IF HasTag(way.tag, "highway") THEN FindTag(way.tag, "highway").v ELSE None

\* Lines 154-163.
AvoidMatch(way) ==
    \/ \E k \in 1..Len(way.tag) : way.tag[k].k \in avoid_tags
    \/ OsmHighway(way) \in avoid_highway

\* Lines 165-173.
Incomplete(way, table) ==
    \/ \E k \in 1..Len(way.nd) : way.nd[k] \notin DOMAIN table
    \/ IsDeleted(way)

\* Lines 140-214: the entry of ways_osm for a way element.
LoadOsmWay(way, table) ==
    LET incomplete == Incomplete(way, table)
        nodes == IF incomplete THEN <<>> ELSE way.nd
    IN  [highway |-> OsmHighway(way),
         incomplete |-> incomplete,
         avoid |-> AvoidMatch(way),
         min_lat |-> BoxMin(IF incomplete THEN 0 ELSE MinLat(nodes, table)),
         max_lat |-> BoxMax(IF incomplete THEN 0 ELSE MaxLat(nodes, table)),
         length |-> PathLength(nodes, table),
         nodes |-> nodes]

\* Lines 229-274: the entry of ways_nvdb for a way element.
LoadNvdbWay(way, table) ==
    [highway |-> IF HasTag(way.tag, "highway") THEN FindTag(way.tag, "highway").v ELSE "",
     missing |-> FALSE,
     min_lat |-> BoxMin(MinLat(way.nd, table)),
     max_lat |-> BoxMax(MaxLat(way.nd, table)),
     length |-> PathLength(way.nd, table),
     nodes |-> way.nd]

Ids(s) == [k \in 1..Len(s) |-> s[k].id]

Load ==
    /\ pc = "load"
    /\ LET table == LoadNodes(root_osm.node)
           table_nvdb == LoadNodes(root_nvdb.node)
       IN  /\ nodes_osm' = CountUses(table, AllRefs(root_osm.way) \o NodeMembers(root_osm.relation))
           /\ nodes_nvdb' = table_nvdb
           /\ root_osm' = [root_osm EXCEPT !.node = [k \in 1..Len(@) |-> StripCreatedBy(@[k])]]
           /\ ways_osm' = [id \in Range(Ids(root_osm.way)) |->
                              LoadOsmWay(Element(root_osm.way, id), table)]
           /\ ways_nvdb' = [id \in Range(Ids(root_nvdb.way)) |->
                              LoadNvdbWay(Element(root_nvdb.way, id), table_nvdb)]
    /\ keys_osm' = Ids(root_osm.way)
    /\ keys_nvdb' = Ids(root_nvdb.way)
    /\ pc' = "match"
    /\ i' = 0
    /\ UNCHANGED <<command, merge_all, root_nvdb, count_swap, total_distance,
                   best_id, best_distance, log>>

-----------------------------------------------------------------------------
(* Matching, lines 279-494 *)

Has(dict, key) == key \in DOMAIN dict

\* dict[key] = value on a dict that may not hold the key yet.
Set(dict, key, value) ==
    [k \in DOMAIN dict \cup {key} |-> IF k = key THEN value ELSE dict[k]]

\* Lines 301-302 without line 302: only an NVDB cycleway or footway is kept
\* from the OSM ways of other categories.
CrossCategoryOneWay(nvdb_highway, osm_highway) ==
    nvdb_highway \in {"cycleway", "footway"} /\ osm_highway \notin {"cycleway", "footway", "track"}

\* Lines 301-302, 376-377, 446-447: the pairs of categories never matched.
CrossCategory(nvdb_highway, osm_highway) ==
    \/ nvdb_highway \in {"cycleway", "footway"} /\ osm_highway \notin {"cycleway", "footway", "track"}
    \/ nvdb_highway \notin {"cycleway", "footway"} /\ osm_highway \in {"cycleway", "footway"}

\* Lines 303-304, 378-379, 448-449; the longitude bounds of ways of one
\* meridian always overlap.
BoxesOverlap(a, b) == a.min_lat <= b.max_lat /\ a.max_lat >= b.min_lat

\* Lines 305-306 without line 305: only the NVDB way is kept from being too
\* long for the OSM way.
LengthsOneSided(osm_way, nvdb_way) == nvdb_way.length < match_factor * osm_way.length

\* Lines 305-306 and 450-451.
LengthsComparable(osm_way, nvdb_way) ==
    /\ osm_way.length < match_factor * nvdb_way.length
    /\ nvdb_way.length < match_factor * osm_way.length

\* Line 299 without the test: claimed ways stay candidates.
ClaimedToo(nvdb_way) == TRUE

\* Line 299.
Unclaimed(nvdb_way) == ~Has(nvdb_way, "osm_id") \/ merge_all

InReplaceHighway(highway) == replace_highway = {} \/ highway \in replace_highway

\* Lines 290-291 without the test of incomplete.
ReplaceSourceIncomplete(osm_way) ==
    /\ ~osm_way.avoid
    /\ osm_way.highway # None
    /\ InReplaceHighway(osm_way.highway)

\* Lines 290-291: the OSM ways matched by replace and offset.
ReplaceSource(osm_way) ==
    /\ ~osm_way.incomplete
    /\ ~osm_way.avoid
    /\ osm_way.highway # None
    /\ InReplaceHighway(osm_way.highway)

\* Line 436: the OSM ways matched by tag.
TagSource(osm_way) ==
    /\ ~osm_way.incomplete
    /\ ~osm_way.avoid
    /\ osm_way.highway # None
    /\ osm_way.highway \notin avoid_highway_tags

\* Lines 299-306: the NVDB ways scored for an OSM way by replace and offset.
ReplaceCandidate(osm_way, nvdb_way) ==
    /\ Unclaimed(nvdb_way)
    /\ InReplaceHighway(nvdb_way.highway)
    /\ ~CrossCategory(nvdb_way.highway, osm_way.highway)
    /\ BoxesOverlap(nvdb_way, osm_way)
    /\ LengthsComparable(osm_way, nvdb_way)

\* Lines 375-379: the OSM ways scored for an NVDB way by new.
NewCandidate(nvdb_way, osm_way) ==
    /\ ~osm_way.incomplete
    /\ osm_way.highway # None
    /\ osm_way.highway \notin avoid_highway
    /\ ~CrossCategory(nvdb_way.highway, osm_way.highway)
    /\ BoxesOverlap(osm_way, nvdb_way)

\* Lines 445-451: the NVDB ways scored for an OSM way by tag.
TagCandidate(osm_way, nvdb_way) ==
    /\ nvdb_way.highway \notin avoid_highway_tags
    /\ ~CrossCategory(nvdb_way.highway, osm_way.highway)
    /\ BoxesOverlap(nvdb_way, osm_way)
    /\ LengthsComparable(osm_way, nvdb_way)

RECURSIVE Nearest(_, _, _)
\* Lines 313-319: the NVDB node of the way nearest to a position, as
\* [distance, ref]; near.distance stays the radius when none is nearer.
Nearest(lat, nodes, near) ==
    IF nodes = <<>> THEN near
    ELSE LET node_distance == distance(lat, nodes_nvdb[Head(nodes)].lat)
         IN  Nearest(lat, Tail(nodes),
                     IF node_distance < near.distance
                     THEN [distance |-> node_distance, ref |-> Head(nodes)]
                     ELSE near)

Append1(s, x) == IF x \in Range(s) THEN s ELSE Append(s, x)

RECURSIVE Score(_, _, _, _, _)
\* Lines 308-325 (385-398, 453-470): the sum and the number of the distances
\* of the OSM nodes that have an NVDB node of the way within the radius, and
\* the matched nodes: the NVDB nodes, and under tag the OSM nodes.
Score(osm_nodes, nvdb_nodes, radius, tag_mode, score) ==
    IF osm_nodes = <<>> THEN score
    ELSE LET near == Nearest(nodes_osm[Head(osm_nodes)].lat, nvdb_nodes,
                             [distance |-> radius, ref |-> None])
             min_node_ref == IF tag_mode THEN Head(osm_nodes) ELSE near.ref
         IN  Score(Tail(osm_nodes), nvdb_nodes, radius, tag_mode,
                   IF near.distance < radius
                   THEN [way_distance |-> score.way_distance + near.distance,
                         count_distance |-> score.count_distance + 1,
                         match_nodes |-> Append1(score.match_nodes, min_node_ref)]
                   ELSE score)

ScoreWays(osm_way, nvdb_way, radius, tag_mode) ==
    Score(osm_way.nodes, nvdb_way.nodes, radius, tag_mode,
          [way_distance |-> 0, count_distance |-> 0, match_nodes |-> <<>>])

RECURSIVE MatchLength(_, _)
\* Lines 330-337: the length of the line through the matched nodes.
MatchLength(match_nodes, table) ==
    IF Len(match_nodes) < 2 THEN 0
    ELSE IF match_nodes[2] \in DOMAIN table
         THEN distance(table[match_nodes[1]].lat, table[match_nodes[2]].lat)
              + MatchLength(Tail(match_nodes), table)
         ELSE MatchLength(<<match_nodes[1]>> \o Tail(Tail(match_nodes)), table)

\* Line 327 with <= for <: a later candidate at the same mean takes the place
\* of the best so far.
ImprovesOrTies(score, best) ==
    /\ score.count_distance >= min_nodes
    /\ ~RatLess(best.distance, Rat(score.way_distance, score.count_distance))

\* Line 327: enough nodes matched, and nearer on average than the best so far.
Improves(score, best) ==
    /\ score.count_distance >= min_nodes
    /\ RatLess(Rat(score.way_distance, score.count_distance), best.distance)

\* Line 339: the matched nodes span more than 1 / match_factor of the NVDB way.
NotCompressed(nvdb_way, match_length) == nvdb_way.length < match_factor * match_length

\* Lines 327-342: the best match after a scored candidate.
Consider(best, nvdb_id, nvdb_way, score, table) ==
    IF Improves(score, best) /\ NotCompressed(nvdb_way, MatchLength(score.match_nodes, table))
    THEN [id |-> nvdb_id, distance |-> Rat(score.way_distance, score.count_distance)]
    ELSE best

NoBest == [id |-> None, distance |-> BestInit]

RECURSIVE ScanNvdb(_, _, _, _)
\* Lines 295-342 and 440-486: the scan of all NVDB ways for an OSM way.
ScanNvdb(osm_way, keys, tag_mode, best) ==
    IF keys = <<>> THEN best
    ELSE LET nvdb_id == Head(keys)
             nvdb_way == ways_nvdb[nvdb_id]
             candidate == IF tag_mode THEN TagCandidate(osm_way, nvdb_way)
                          ELSE ReplaceCandidate(osm_way, nvdb_way)
         IN  ScanNvdb(osm_way, Tail(keys), tag_mode,
                      IF candidate
                      THEN Consider(best, nvdb_id, nvdb_way,
                                    ScoreWays(osm_way, nvdb_way, margin, tag_mode),
                                    IF tag_mode THEN nodes_osm ELSE nodes_nvdb)
                      ELSE best)

RECURSIVE ScanOsm(_, _, _)
\* Lines 371-413: the scan of the OSM ways for an NVDB way, which ends at the
\* first way accepted; best.id is then the id of the NVDB way itself, and
\* osm_id the way the loop stopped at.
ScanOsm(nvdb_id, keys, best) ==
    IF keys = <<>> THEN [best |-> best, osm_id |-> None]
    ELSE LET osm_way == ways_osm[Head(keys)]
             nvdb_way == ways_nvdb[nvdb_id]
             next == IF NewCandidate(nvdb_way, osm_way)
                     THEN Consider(best, nvdb_id, nvdb_way,
                                   ScoreWays(osm_way, nvdb_way, margin_new, FALSE),
                                   nodes_nvdb)
                     ELSE best
         IN  IF next.id # None THEN [best |-> next, osm_id |-> Head(keys)]
             ELSE ScanOsm(nvdb_id, Tail(keys), next)

\* Line 344 with >= for >.
AcceptedAtMinMargin(best) ==
    /\ best.id # None
    /\ (command = "replace" \/ ~RatLess(best.distance, Rat(min_margin, 1)))

\* Line 344: replace takes every best match, offset those further than
\* min_margin on average.
Accepted(best) ==
    /\ best.id # None
    /\ (command = "replace" \/ RatLess(Rat(min_margin, 1), best.distance))

\* Lines 347-353: whether the accepted match is written to both ways, or the
\* OSM way flagged for removal, or neither.
Recorded(best) == ~Has(ways_nvdb[best.id], "osm_id")

\* Line 352 never taken.
NeverRemoved(best) == FALSE

Removed(best) == Has(ways_nvdb[best.id], "osm_id") /\ merge_all

\* What the scans did, in order: kept beside the program's state to state
\* properties of scans whose results the program overwrites.
LogEntry(source, candidates, match, best) ==
    [source |-> source, candidates |-> candidates, match |-> match,
     distance |-> best.distance,
     claimed |-> {n \in DOMAIN ways_nvdb : Has(ways_nvdb[n], "osm_id")}]

\* One pass of the loop of lines 289-353.
MatchReplace ==
    /\ pc = "match"
    /\ command \in {"replace", "offset"}
    /\ i < Len(keys_osm)
    /\ LET osm_id == keys_osm[i + 1]
           osm_way == ways_osm[osm_id]
           best == ScanNvdb(osm_way, keys_nvdb, FALSE, NoBest)
       IN  IF ReplaceSource(osm_way)
           THEN /\ best_id' = best.id
                /\ best_distance' = best.distance
                /\ log' = Append(log, LogEntry(osm_id,
                              {n \in DOMAIN ways_nvdb : ReplaceCandidate(osm_way, ways_nvdb[n])},
                              best.id, best))
                /\ IF Accepted(best)
                   THEN /\ count_swap' = count_swap + 1
                        /\ total_distance' = RatAdd(total_distance, best.distance)
                        /\ ways_osm' =
                             IF Recorded(best)
                             THEN [ways_osm EXCEPT ![osm_id] = Set(@, "nvdb_id", best.id)]
                             ELSE IF Removed(best)
                             THEN [ways_osm EXCEPT ![osm_id] = Set(@, "remove", TRUE)]
                             ELSE ways_osm
                        /\ ways_nvdb' =
                             IF Recorded(best)
                             THEN [ways_nvdb EXCEPT ![best.id] =
                                      Set(Set(Set(@, "osm_id", osm_id), "swap_no", count_swap + 1),
                                          "distance", best.distance)]
                             ELSE ways_nvdb
                   ELSE UNCHANGED <<count_swap, total_distance, ways_osm, ways_nvdb>>
           ELSE UNCHANGED <<best_id, best_distance, log, count_swap, total_distance,
                            ways_osm, ways_nvdb>>
    /\ i' = i + 1
    /\ UNCHANGED <<command, merge_all, root_osm, root_nvdb, nodes_osm, nodes_nvdb,
                   keys_osm, keys_nvdb, pc>>

\* One pass of the loop of lines 367-422.
MatchNew ==
    /\ pc = "match"
    /\ command = "new"
    /\ i < Len(keys_nvdb)
    /\ LET nvdb_id == keys_nvdb[i + 1]
           scan == ScanOsm(nvdb_id, keys_osm, NoBest)
       IN  /\ best_id' = scan.best.id
           /\ best_distance' = scan.best.distance
           /\ log' = Append(log, LogEntry(nvdb_id,
                         {o \in DOMAIN ways_osm : NewCandidate(ways_nvdb[nvdb_id], ways_osm[o])},
                         scan.osm_id, scan.best))
           /\ ways_nvdb' = IF scan.best.id = None
                           THEN [ways_nvdb EXCEPT ![nvdb_id].missing = TRUE]
                           ELSE ways_nvdb
    /\ i' = i + 1
    /\ UNCHANGED <<command, merge_all, root_osm, root_nvdb, nodes_osm, nodes_nvdb,
                   ways_osm, keys_osm, keys_nvdb, count_swap, total_distance, pc>>

\* One pass of the loop of lines 435-492.
MatchTag ==
    /\ pc = "match"
    /\ command = "tag"
    /\ i < Len(keys_osm)
    /\ LET osm_id == keys_osm[i + 1]
           osm_way == ways_osm[osm_id]
           best == ScanNvdb(osm_way, keys_nvdb, TRUE, NoBest)
       IN  IF TagSource(osm_way)
           THEN /\ best_id' = best.id
                /\ best_distance' = best.distance
                /\ log' = Append(log, LogEntry(osm_id,
                              {n \in DOMAIN ways_nvdb : TagCandidate(osm_way, ways_nvdb[n])},
                              best.id, best))
                /\ IF best.id # None
                   THEN /\ count_swap' = count_swap + 1
                        /\ ways_osm' = [ways_osm EXCEPT ![osm_id] =
                              Set(Set(Set(@, "nvdb_id", best.id), "swap_no", count_swap + 1),
                                  "distance", best.distance)]
                   ELSE UNCHANGED <<count_swap, ways_osm>>
           ELSE UNCHANGED <<best_id, best_distance, log, count_swap, ways_osm>>
    /\ i' = i + 1
    /\ UNCHANGED <<command, merge_all, root_osm, root_nvdb, nodes_osm, nodes_nvdb,
                   ways_nvdb, keys_osm, keys_nvdb, total_distance, pc>>

\* The tree the ways are transferred to, lines 501-504: an empty one for new.
EmptyTree == [node |-> <<>>, way |-> <<>>, relation |-> <<>>]

\* The end of the matching loop: the statistics of lines 355-357, 424 and 494,
\* where replace and offset divide by count_swap, and lines 499-504.
MatchEnd ==
    /\ pc = "match"
    /\ i = Len(IF command = "new" THEN keys_nvdb ELSE keys_osm)
    /\ IF command \in {"replace", "offset"} /\ count_swap = 0
       THEN /\ pc' = "ZeroDivisionError"
            /\ UNCHANGED root_osm
       ELSE /\ pc' = "transfer"
            /\ root_osm' = IF command = "new" THEN EmptyTree ELSE root_osm
    /\ i' = 0
    /\ UNCHANGED <<command, merge_all, root_nvdb, nodes_osm, nodes_nvdb, ways_osm,
                   ways_nvdb, keys_osm, keys_nvdb, count_swap, total_distance,
                   best_id, best_distance, log>>

-----------------------------------------------------------------------------
(* Transfer, lines 497-605 *)

\* The tags with the first tag of the key given the value.
SetTag(tag, key, v) ==
    LET first == CHOOSE k \in 1..Len(tag) : tag[k].k = key /\ \A j \in 1..(k - 1) : tag[j].k # key
    IN  [tag EXCEPT ![first].v = v]

\* The tags without the first tag of the key.
RemoveTag(tag, key) ==
    IF HasTag(tag, key)
    THEN LET first == CHOOSE k \in 1..Len(tag) : tag[k].k = key /\ \A j \in 1..(k - 1) : tag[j].k # key
         IN  SubSeq(tag, 1, first - 1) \o SubSeq(tag, first + 1, Len(tag))
    ELSE tag

RECURSIVE CopyTags(_, _)
\* Lines 520-528: the tags of the NVDB way written over those of the OSM way.
CopyTags(tag, nvdb_tag) ==
    IF nvdb_tag = <<>> THEN tag
    ELSE LET tag_nvdb == Head(nvdb_tag)
             found == HasTag(tag, tag_nvdb.k)
         IN  CopyTags(
                 IF tag_nvdb.k = "highway"
                 THEN IF found /\ tag_nvdb.v # FindTag(tag, "highway").v
                      THEN Append(tag, Tag("NVDB", tag_nvdb.v))
                      ELSE tag
                 ELSE IF found THEN SetTag(tag, tag_nvdb.k, tag_nvdb.v)
                 ELSE Append(tag, tag_nvdb),
                 Tail(nvdb_tag))

\* Lines 516-528.
ReplaceTags(tag, nvdb_tag) ==
    LET Keep(t) == t.k \notin avoid_merge
    IN  CopyTags(SelectSeq(tag, Keep), nvdb_tag)

\* Lines 536, 550 left out: the counts stay.
NoUnuse(table, nd) == table

\* Lines 536, 550: one use less per nd of the way.
Unuse(table, nd) == [id \in DOMAIN table |-> [table[id] EXCEPT !.used = @ - Count(nd, id)]]

\* Lines 540, 605: one use more per node of the way.
Use(table, nd) == [id \in DOMAIN table |-> [table[id] EXCEPT !.used = @ + Count(nd, id)]]

Join(records) ==
    LET RECURSIVE Rest(_)
        Rest(r) == IF r = <<>> THEN "" ELSE ";" \o Head(r) \o Rest(Tail(r))
    IN  IF records = <<>> THEN "" ELSE Head(records) \o Rest(Tail(records))

RECURSIVE UpdateTags(_, _, _)
\* Lines 563-574: the merge_tags of the NVDB way written to the OSM way, as
\* [tag, modified_tags].
UpdateTags(tag, modified_tags, nvdb_tag) ==
    IF nvdb_tag = <<>> THEN [tag |-> tag, modified_tags |-> modified_tags]
    ELSE LET tag_nvdb == Head(nvdb_tag)
         IN  IF tag_nvdb.k \notin merge_tags
             THEN UpdateTags(tag, modified_tags, Tail(nvdb_tag))
             ELSE IF HasTag(tag, tag_nvdb.k)
             THEN IF tag_nvdb.v # FindTag(tag, tag_nvdb.k).v
                  THEN UpdateTags(SetTag(tag, tag_nvdb.k, tag_nvdb.v),
                           Append(modified_tags,
                               "Modified " \o tag_nvdb.k \o "=" \o FindTag(tag, tag_nvdb.k).v
                                   \o " to " \o tag_nvdb.v),
                           Tail(nvdb_tag))
                  ELSE UpdateTags(tag, modified_tags, Tail(nvdb_tag))
             ELSE UpdateTags(Append(tag, tag_nvdb),
                      Append(modified_tags, "Added " \o tag_nvdb.k \o "=" \o tag_nvdb.v),
                      Tail(nvdb_tag))

\* Lines 511-543: the OSM way element with the geometry and tags of its match.
ReplacedWay(way, nvdb_way) ==
    [way EXCEPT !.tag = ReplaceTags(way.tag, nvdb_way.tag),
                !.nd = nvdb_way.nd,
                !.action = "modify"]

\* Lines 547-553.
RemovedWay(way) == [way EXCEPT !.nd = <<>>, !.action = "delete"]

\* Lines 557-582 with line 577 outside the test of modified.
TaggedWayAlways(way, nvdb_way) ==
    LET update == UpdateTags(way.tag, <<>>, nvdb_way.tag)
    IN  IF update.modified_tags # <<>>
        THEN [way EXCEPT !.action = "modify",
                         !.tag = Append(update.tag, Tag("EDIT", Join(update.modified_tags)))]
        ELSE [way EXCEPT !.action = "modify"]

\* Lines 557-582: the way is touched only when a tag was added or changed.
TaggedWay(way, nvdb_way) ==
    LET update == UpdateTags(way.tag, <<>>, nvdb_way.tag)
    IN  IF update.modified_tags # <<>>
        THEN [way EXCEPT !.action = "modify",
                         !.tag = Append(update.tag, Tag("EDIT", Join(update.modified_tags)))]
        ELSE way

\* The number of ways root_osm.findall("way") gives at line 506: those of the
\* OSM file, and none in the empty tree of new.
TransferWays == IF command = "new" THEN 0 ELSE Len(keys_osm)

\* One pass of the loop of lines 506-582 over the ways of the output tree.
Transfer ==
    /\ pc = "transfer"
    /\ i < TransferWays
    /\ LET way == root_osm.way[i + 1]
           osm_id == way.id
           nvdb_way == Element(root_nvdb.way, ways_osm[osm_id].nvdb_id)
       IN  IF command = "replace" /\ Has(ways_osm[osm_id], "nvdb_id")
           THEN /\ root_osm' = [root_osm EXCEPT !.way[i + 1] = ReplacedWay(way, nvdb_way)]
                /\ nodes_osm' = Unuse(nodes_osm, way.nd)
                /\ nodes_nvdb' = Use(nodes_nvdb, nvdb_way.nd)
           ELSE IF command = "replace" /\ Has(ways_osm[osm_id], "remove")
           THEN /\ root_osm' = [root_osm EXCEPT !.way[i + 1] = RemovedWay(way)]
                /\ nodes_osm' = Unuse(nodes_osm, way.nd)
                /\ UNCHANGED nodes_nvdb
           ELSE IF command = "tag" /\ Has(ways_osm[osm_id], "nvdb_id")
           THEN /\ root_osm' = [root_osm EXCEPT !.way[i + 1] = TaggedWay(way, nvdb_way)]
                /\ UNCHANGED <<nodes_osm, nodes_nvdb>>
           ELSE UNCHANGED <<root_osm, nodes_osm, nodes_nvdb>>
    /\ i' = i + 1
    /\ UNCHANGED <<command, merge_all, root_nvdb, ways_osm, ways_nvdb, keys_osm,
                   keys_nvdb, count_swap, total_distance, best_id, best_distance,
                   log, pc>>

\* Lines 589-591 with every NVDB way imported by new.
ImportedAll(nvdb_id) ==
    \/ command = "new"
    \/ /\ command = "replace"
       /\ ~Has(ways_nvdb[nvdb_id], "osm_id")
       /\ InReplaceHighway(ways_nvdb[nvdb_id].highway)
    \/ command = "offset" /\ Has(ways_nvdb[nvdb_id], "osm_id")

\* Lines 589-591: the NVDB ways that go to the output.
Imported(nvdb_id) ==
    \/ command = "new" /\ ways_nvdb[nvdb_id].missing
    \/ /\ command = "replace"
       /\ ~Has(ways_nvdb[nvdb_id], "osm_id")
       /\ InReplaceHighway(ways_nvdb[nvdb_id].highway)
    \/ command = "offset" /\ Has(ways_nvdb[nvdb_id], "osm_id")

\* Lines 593-597: under offset an imported way takes the category of the OSM
\* way it matched, and keeps its own in an NVDB tag.
Annotated(way) ==
    LET highway == ways_nvdb[way.id].highway
        osm_highway == ways_osm[ways_nvdb[way.id].osm_id].highway
    IN  IF command = "offset" /\ highway # osm_highway
        THEN [way EXCEPT !.tag = Append(SetTag(way.tag, "highway", osm_highway),
                                        Tag("NVDB", highway))]
        ELSE way

\* One pass of the loop of lines 586-605 over the ways of the NVDB file; the
\* way element is one object in both trees.
Import ==
    /\ pc = "transfer"
    /\ i >= TransferWays
    /\ i - TransferWays < Len(root_nvdb.way)
    /\ LET k == i - TransferWays + 1
           way == root_nvdb.way[k]
       IN  IF Imported(way.id)
           THEN /\ root_nvdb' = [root_nvdb EXCEPT !.way[k] = Annotated(way)]
                /\ root_osm' = [root_osm EXCEPT !.way = Append(@, Annotated(way))]
                /\ nodes_nvdb' = Use(nodes_nvdb, ways_nvdb[way.id].nodes)
           ELSE UNCHANGED <<root_nvdb, root_osm, nodes_nvdb>>
    /\ i' = i + 1
    /\ UNCHANGED <<command, merge_all, nodes_osm, ways_osm, ways_nvdb, keys_osm,
                   keys_nvdb, count_swap, total_distance, best_id, best_distance,
                   log, pc>>

-----------------------------------------------------------------------------
(* Nodes and output, lines 607-647 *)

RECURSIVE PruneNodes(_, _)
\* Lines 609-614 from node k on: the node elements, and whether the lookup of
\* a node that is not in nodes_osm raised KeyError.
PruneNodes(node, k) ==
    IF k > Len(node) THEN [node |-> node, raised |-> FALSE]
    ELSE IF node[k].tag # <<>> THEN PruneNodes(node, k + 1)
    ELSE IF node[k].id \notin DOMAIN nodes_osm THEN [node |-> node, raised |-> TRUE]
    ELSE IF nodes_osm[node[k].id].used = 0
         THEN PruneNodes([node EXCEPT ![k].action = "delete"], k + 1)
         ELSE PruneNodes(node, k + 1)

\* The loop of lines 609-614, after the last pass of the loop of lines 586-605.
Prune ==
    /\ pc = "transfer"
    /\ i = TransferWays + Len(root_nvdb.way)
    /\ LET pruned == PruneNodes(root_osm.node, 1)
       IN  /\ root_osm' = [root_osm EXCEPT !.node = pruned.node]
           /\ pc' = IF pruned.raised THEN "KeyError" ELSE "nodes"
    /\ i' = 0
    /\ UNCHANGED <<command, merge_all, root_nvdb, nodes_osm, nodes_nvdb, ways_osm,
                   ways_nvdb, keys_osm, keys_nvdb, count_swap, total_distance,
                   best_id, best_distance, log>>

\* Lines 618-621: the NVDB nodes in use go to the output.
AddNodes ==
    /\ pc = "nodes"
    /\ LET InUse(n) == n.id \in DOMAIN nodes_nvdb /\ nodes_nvdb[n.id].used > 0
       IN  root_osm' = [root_osm EXCEPT !.node = @ \o SelectSeq(root_nvdb.node, InUse)]
    /\ pc' = "cleanup"
    /\ UNCHANGED <<command, merge_all, root_nvdb, nodes_osm, nodes_nvdb, ways_osm,
                   ways_nvdb, keys_osm, keys_nvdb, count_swap, total_distance,
                   best_id, best_distance, log, i>>

\* Lines 625-631.
CleanWay(way) == [way EXCEPT !.tag = RemoveTag(RemoveTag(@, "nvdb:id"), "nvdb:date")]

\* Lines 625-647: the nvdb tags are taken off the ways of the output, which
\* is written; the imported ways are the elements of the NVDB tree.
Cleanup ==
    /\ pc = "cleanup"
    /\ root_osm' = [root_osm EXCEPT !.way = [k \in 1..Len(@) |-> CleanWay(@[k])]]
    /\ root_nvdb' = [root_nvdb EXCEPT !.way = [k \in 1..Len(@) |->
                        IF \E j \in (TransferWays + 1)..Len(root_osm.way) : root_osm.way[j].id = @[k].id
                        THEN CleanWay(@[k]) ELSE @[k]]]
    /\ pc' = "done"
    /\ UNCHANGED <<command, merge_all, nodes_osm, nodes_nvdb, ways_osm, ways_nvdb,
                   keys_osm, keys_nvdb, count_swap, total_distance, best_id,
                   best_distance, log, i>>

Next ==
    \/ Load
    \/ MatchReplace
    \/ MatchNew
    \/ MatchTag
    \/ MatchEnd
    \/ Transfer
    \/ Import
    \/ Prune
    \/ AddNodes
    \/ Cleanup

Spec == Init /\ [][Next]_vars

-----------------------------------------------------------------------------
(* Properties *)

Entries == {log[k] : k \in 1..Len(log)}

Position(keys, id) == CHOOSE k \in 1..Len(keys) : keys[k] = id

\* The score of an NVDB way for an OSM way as the scan of the command takes it.
ScoreOf(o, n) ==
    ScoreWays(ways_osm[o], ways_nvdb[n], margin, command = "tag")

MeanOf(o, n) == Rat(ScoreOf(o, n).way_distance, ScoreOf(o, n).count_distance)

\* The candidates of an entry with at least min_nodes matched nodes whose
\* matched nodes are not compressed.
Qualifying(e) ==
    {n \in e.candidates :
        /\ ScoreOf(e.source, n).count_distance >= min_nodes
        /\ ways_nvdb[n].length < match_factor *
              MatchLength(ScoreOf(e.source, n).match_nodes,
                          IF command = "tag" THEN nodes_osm ELSE nodes_nvdb)}

\* C1: under replace, offset and tag the result of a scan is the qualifying
\* candidate of the smallest mean distance, the earliest such candidate in the
\* order of the NVDB ways when several share it, and None exactly when no
\* candidate qualifies.
C1_BestIsNearestQualifying ==
    command \in {"replace", "offset", "tag"} =>
        \A e \in Entries :
            /\ (e.match = None) <=> (Qualifying(e) = {})
            /\ e.match # None =>
                  /\ e.match \in Qualifying(e)
                  /\ e.distance = MeanOf(e.source, e.match)
                  /\ \A n \in Qualifying(e) :
                        /\ ~RatLess(MeanOf(e.source, n), e.distance)
                        /\ MeanOf(e.source, n) = e.distance =>
                              Position(keys_nvdb, e.match) <= Position(keys_nvdb, n)

\* A scan that chose between two qualifying candidates of the same mean
\* distance, and a scan whose nearest candidate did not qualify.
C1_Witness ==
    /\ command \in {"replace", "offset", "tag"}
    /\ \E e \in Entries :
          /\ e.match # None
          /\ \E n \in Qualifying(e) \ {e.match} : MeanOf(e.source, n) = e.distance

TooLong(a, b) == a.length >= match_factor * b.length

C3_OneToOne ==
    (command \in {"replace", "offset"} /\ ~merge_all) =>
        /\ \A o \in DOMAIN ways_osm :
              Has(ways_osm[o], "nvdb_id") =>
                  /\ Has(ways_nvdb[ways_osm[o].nvdb_id], "osm_id")
                  /\ ways_nvdb[ways_osm[o].nvdb_id].osm_id = o
        /\ \A n \in DOMAIN ways_nvdb :
              Has(ways_nvdb[n], "osm_id") =>
                  /\ Has(ways_osm[ways_nvdb[n].osm_id], "nvdb_id")
                  /\ ways_osm[ways_nvdb[n].osm_id].nvdb_id = n
        /\ \A e \in Entries : e.candidates \cap e.claimed = {}

\* Two OSM ways matched to two NVDB ways, the second after a scan that left
\* out the NVDB way the first had claimed.
C3_Witness ==
    /\ command \in {"replace", "offset"}
    /\ ~merge_all
    /\ \E o1, o2 \in DOMAIN ways_osm :
          /\ o1 # o2
          /\ Has(ways_osm[o1], "nvdb_id")
          /\ Has(ways_osm[o2], "nvdb_id")
          /\ \E e \in Entries :
                /\ e.source = o2
                /\ ways_osm[o1].nvdb_id \in e.claimed
                /\ ReplaceCandidate(ways_osm[o2],
                      [k \in DOMAIN ways_nvdb[ways_osm[o1].nvdb_id] \ {"osm_id"} |->
                          ways_nvdb[ways_osm[o1].nvdb_id][k]])

\* The way elements as the files give them.
OriginalWay(id) == Element(OsmWayCatalogue, id)

OriginalNvdbWay(id) == Element(NvdbWayCatalogue, id)

\* The output tree is the tree of the OSM file: always but under new once
\* matching has ended.
OutputIsBaseline == command # "new" \/ pc \in {"load", "match"}

IncompleteWays == {o \in DOMAIN ways_osm : ways_osm[o].incomplete}

\* No scan, match or removal flag involves the way.
NeverMatched(o) ==
    /\ \A e \in Entries : e.source # o /\ o \notin e.candidates /\ e.match # o
    /\ ~Has(ways_osm[o], "nvdb_id")
    /\ ~Has(ways_osm[o], "remove")
    /\ \A n \in DOMAIN ways_nvdb : Has(ways_nvdb[n], "osm_id") => ways_nvdb[n].osm_id # o

InTree(way) == \E k \in 1..Len(root_osm.way) : root_osm.way[k] = way

\* C4 as claimed: an incomplete OSM way is in no scan, gets no match and no
\* removal flag, and is in the output as the file gave it, whatever the
\* command.
C4_IncompleteInEveryOutput ==
    \A o \in IncompleteWays :
        /\ NeverMatched(o)
        /\ pc # "load"
        /\ pc = "done" => InTree(OriginalWay(o))

\* C4, amended: an incomplete OSM way is in no scan, gets no match and no
\* removal flag under any command, and loading it raises nothing; under
\* replace, offset and tag it stays in the tree as the file gave it, and
\* under new the output holds no OSM way, so not this one either.
C4_IncompleteUntouched ==
    \A o \in IncompleteWays :
        /\ NeverMatched(o)
        /\ pc # "load"
        /\ IF OutputIsBaseline
           THEN InTree(OriginalWay(o))
           ELSE \A k \in 1..Len(root_osm.way) : root_osm.way[k].id # o

\* An output of replace with an incomplete way that lies on a matched NVDB
\* way, matched by another OSM way.
C4_Witness ==
    /\ pc = "done"
    /\ command = "replace"
    /\ \E o \in IncompleteWays, e \in Entries :
          /\ e.match # None
          /\ OriginalWay(o).nd = OriginalWay(e.source).nd

UsesInTree(id) == Count(AllRefs(root_osm.way), id)

\* C5 as claimed: once matching has ended, the count of every node is the
\* number of its uses by the ways of the output, and by the relations for an
\* OSM node.
C5_CountsExactAnyMode ==
    pc \in {"transfer", "nodes", "cleanup", "done"} =>
        /\ \A n \in DOMAIN nodes_nvdb : nodes_nvdb[n].used = UsesInTree(n)
        /\ \A n \in DOMAIN nodes_osm :
              nodes_osm[n].used = UsesInTree(n) + Count(NodeMembers(OsmRelations), n)

\* C5, amended: from loading on, and so after every replaced or removed way,
\* the count of every NVDB node is the number of its uses by the ways of the
\* output; so is the count of every OSM node, with its uses by the relations,
\* as long as the output is the tree of the OSM file; under new the counts of
\* the OSM nodes stay what loading made them; no count is negative.
C5_CountsExact ==
    pc # "load" =>
        /\ \A n \in DOMAIN nodes_nvdb :
              nodes_nvdb[n].used = UsesInTree(n) /\ nodes_nvdb[n].used >= 0
        /\ \A n \in DOMAIN nodes_osm :
              /\ nodes_osm[n].used >= 0
              /\ nodes_osm[n].used =
                    IF OutputIsBaseline
                    THEN UsesInTree(n) + Count(NodeMembers(root_osm.relation), n)
                    ELSE Count(AllRefs([k \in 1..Len(keys_osm) |-> OriginalWay(keys_osm[k])]), n)
                         + Count(NodeMembers(OsmRelations), n)

\* An output of replace in which one OSM way took the nodes of an NVDB way,
\* another was removed, and a node they shared is still used by a relation.
C5_Witness ==
    /\ pc = "done"
    /\ command = "replace"
    /\ \E o1, o2 \in DOMAIN ways_osm :
          /\ Has(ways_osm[o1], "nvdb_id")
          /\ Has(ways_osm[o2], "remove")
          /\ \E n \in Range(OriginalWay(o1).nd) \cap Range(OriginalWay(o2).nd) :
                nodes_osm[n].used = 1
    /\ \E n \in DOMAIN nodes_nvdb : nodes_nvdb[n].used > 0

FurtherThanMinMargin(d) == RatLess(Rat(min_margin, 1), d)

ImportedWays == {root_osm.way[k].id : k \in 1..Len(root_osm.way)} \cap DOMAIN ways_nvdb

NoneAccepted == {e.source : e \in {f \in Entries : f.match = None}}

NodeIds(node) == {node[k].id : k \in 1..Len(node)}

\* C7: under new an NVDB way is flagged missing exactly when its scan
\* accepted no OSM way, and the output holds exactly the missing NVDB ways,
\* once each, with the nd references the NVDB file gave them, exactly the
\* NVDB nodes those ways use, once each, and no way, node or relation of the
\* OSM file.
C7_NewOutput ==
    command = "new" =>
        /\ \A e \in Entries : ways_nvdb[e.source].missing <=> e.match = None
        /\ \A n \in DOMAIN ways_nvdb :
              ways_nvdb[n].missing => \E e \in Entries : e.source = n
        /\ pc = "done" =>
              /\ {root_osm.way[k].id : k \in 1..Len(root_osm.way)} = NoneAccepted
              /\ Len(root_osm.way) = Cardinality(NoneAccepted)
              /\ \A k \in 1..Len(root_osm.way) :
                    root_osm.way[k].nd = OriginalNvdbWay(root_osm.way[k].id).nd
              /\ NodeIds(root_osm.node) = Range(AllRefs(root_osm.way))
              /\ Len(root_osm.node) = Cardinality(NodeIds(root_osm.node))
              /\ NodeIds(root_osm.node) \subseteq NodeIds(NvdbNodes)
              /\ NodeIds(root_osm.node) \cap NodeIds(OsmLiveNodes \o OsmDeletedNodes) = {}
              /\ \A k \in 1..Len(root_osm.way) : root_osm.way[k].id \notin DOMAIN ways_osm
              /\ root_osm.relation = <<>>

\* An output of new from an OSM file with ways, with one NVDB way in it and
\* another left out for the OSM way accepted for it.
C7_Witness ==
    /\ pc = "done"
    /\ command = "new"
    /\ root_osm.way # <<>>
    /\ \E e \in Entries : e.match # None /\ e.source \notin NodeIds(root_osm.way)

\* The uses loading counts for an OSM node.
LoadedUses(n) ==
    Count(AllRefs([k \in 1..Len(keys_osm) |-> OriginalWay(keys_osm[k])]), n)
    + Count(NodeMembers(OsmRelations), n)

\* The merge_tags of the NVDB way that the OSM way lacks or has with another
\* value, in the order of the NVDB way.
Changes(orig, nvdb) ==
    LET Changed(t) == /\ t.k \in merge_tags
                      /\ (HasTag(orig.tag, t.k) => FindTag(orig.tag, t.k).v # t.v)
    IN  SelectSeq(nvdb.tag, Changed)

ChangeRecord(orig, t) ==
    IF HasTag(orig.tag, t.k)
    THEN "Modified " \o t.k \o "=" \o FindTag(orig.tag, t.k).v \o " to " \o t.v
    ELSE "Added " \o t.k \o "=" \o t.v

\* What C8 says of the way element cur that came from orig by the tags of nvdb.
TagsOnly(orig, cur, nvdb) ==
    LET changes == Changes(orig, nvdb)
    IN  /\ cur.nd = orig.nd
        /\ cur.id = orig.id
        /\ \A t \in Range(orig.tag) :
              /\ HasTag(cur.tag, t.k)
              /\ FindTag(cur.tag, t.k).v # t.v => t.k \in merge_tags
        /\ \A t \in Range(cur.tag) :
              ~HasTag(orig.tag, t.k) => t.k \in merge_tags \cup {"EDIT"}
        /\ cur.action = "modify" <=> changes # <<>>
        /\ HasTag(cur.tag, "EDIT") <=> changes # <<>>
        /\ changes # <<>> =>
              /\ FindTag(cur.tag, "EDIT").v =
                    Join([j \in 1..Len(changes) |-> ChangeRecord(orig, changes[j])])
              /\ \A j \in 1..Len(changes) :
                    FindTag(cur.tag, changes[j].k).v = changes[j].v
        /\ changes = <<>> => cur = orig

\* The ways the loop of lines 506-582 has passed.
Transferred ==
    IF pc = "transfer" THEN 1..Min2(i, TransferWays)
    ELSE IF pc \in {"nodes", "cleanup", "done"} THEN 1..TransferWays
    ELSE {}

\* C8: under tag, a matched OSM way the transfer has passed keeps its nd
\* references; its tags differ from those of the file only in keys of
\* merge_tags and the EDIT tag; it is marked modified and given the EDIT tag,
\* one "Added k=v" or "Modified k=old to new" record per change, exactly
\* when a tag of merge_tags was added or changed, and is otherwise as the
\* file gave it; and the counts of all nodes stay what loading made them.
C8_TagOnly ==
    (command = "tag" /\ pc # "load") =>
        /\ \A k \in Transferred :
              Has(ways_osm[keys_osm[k]], "nvdb_id") =>
                  TagsOnly(OriginalWay(keys_osm[k]), root_osm.way[k],
                           OriginalNvdbWay(ways_osm[keys_osm[k]].nvdb_id))
        /\ \A n \in DOMAIN nodes_osm : nodes_osm[n].used = LoadedUses(n)
        /\ \A n \in DOMAIN nodes_nvdb : nodes_nvdb[n].used = 0

\* An output of tag with a matched way that got tags and a matched way whose
\* tags were those of its match already.
C8_Witness ==
    /\ pc = "done"
    /\ command = "tag"
    /\ \E k1, k2 \in 1..Len(keys_osm) :
          /\ Has(ways_osm[keys_osm[k1]], "nvdb_id")
          /\ Has(ways_osm[keys_osm[k2]], "nvdb_id")
          /\ root_osm.way[k1].action = "modify"
          /\ root_osm.way[k2] = OriginalWay(keys_osm[k2])

OriginalNode(id) == Element(OsmLiveNodes \o OsmDeletedNodes, id)

\* C9 as claimed: for every input, deleted OSM nodes among them, the loop over
\* the OSM nodes ends, and then an OSM node without uses and tags is marked
\* deleted, an OSM node with a use or a tag has the action it had, and an
\* NVDB node is in the output exactly when its count is not zero.
C9_PruneCompletes ==
    /\ pc # "KeyError"
    /\ pc \in {"nodes", "cleanup", "done"} =>
          \A k \in 1..Len(root_osm.node) :
              LET node == root_osm.node[k]
              IN  node.id \in DOMAIN nodes_osm =>
                      IF node.tag = <<>> /\ nodes_osm[node.id].used = 0
                      THEN node.action = "delete"
                      ELSE node.action = StripCreatedBy(OriginalNode(node.id)).action
    /\ pc \in {"cleanup", "done"} =>
          \A n \in DOMAIN nodes_nvdb :
              n \in NodeIds(root_osm.node) <=> nodes_nvdb[n].used # 0

\* The loop over the OSM nodes as C9 has it when the input holds no deleted
\* node without tags.
C9_PruneWithoutDeleted ==
    (\A k \in 1..Len(root_osm.node) :
        IsDeleted(root_osm.node[k]) /\ root_osm.node[k].tag = <<>>
            => root_osm.node[k].id \in DOMAIN nodes_osm) => C9_PruneCompletes

EligibleWays == {o \in DOMAIN ways_osm : ReplaceSource(ways_osm[o])}

\* C10 as claimed: under replace with merge_all, every eligible OSM way
\* without a match is in the output without nd references and marked deleted.
C10_RemoveEveryUnmatched ==
    (command = "replace" /\ merge_all /\ pc \in {"nodes", "cleanup", "done"}) =>
        \A o \in EligibleWays :
            ~Has(ways_osm[o], "nvdb_id") =>
                /\ Element(root_osm.way, o).nd = <<>>
                /\ Element(root_osm.way, o).action = "delete"

\* The OSM ways whose nd references the transfer takes away.
Taken ==
    LET Flagged(o) == Has(ways_osm[o], "nvdb_id") \/ Has(ways_osm[o], "remove")
    IN  SelectSeq(keys_osm, Flagged)

\* C10, amended: under replace with merge_all, an eligible OSM way is flagged
\* for removal exactly when its best match was claimed by an earlier way, and
\* is then in the output without nd references and marked deleted; an
\* eligible way for which no NVDB way qualified is in the output as the file
\* gave it; and the count of every OSM node is what loading made it less one
\* per nd reference of the removed and the replaced ways.
C10_RemoveOnClaimedMatch ==
    (command = "replace" /\ merge_all) =>
        /\ \A e \in Entries :
              /\ Has(ways_osm[e.source], "remove") <=> e.match \in e.claimed
              /\ Has(ways_osm[e.source], "nvdb_id") <=> (e.match # None /\ e.match \notin e.claimed)
        /\ \A o \in DOMAIN ways_osm :
              Has(ways_osm[o], "remove") => \E e \in Entries : e.source = o
        /\ pc \in {"nodes", "cleanup", "done"} =>
              /\ \A e \in Entries :
                    LET way == Element(root_osm.way, e.source)
                    IN  /\ e.match \in e.claimed => way.nd = <<>> /\ way.action = "delete"
                        /\ e.match = None => way = OriginalWay(e.source)
              /\ \A n \in DOMAIN nodes_osm :
                    nodes_osm[n].used =
                        LoadedUses(n)
                        - Count(AllRefs([k \in 1..Len(Taken) |-> OriginalWay(Taken[k])]), n)

\* An output of replace with merge_all in which a way was removed for a best
\* match claimed before, and a node of it lost its uses.
C10_Witness ==
    /\ pc = "done"
    /\ command = "replace"
    /\ merge_all
    /\ \E e \in Entries :
          /\ e.match \in e.claimed
          /\ Element(root_osm.way, e.source).action = "delete"
          /\ \E n \in Range(OriginalWay(e.source).nd) : nodes_osm[n].used < LoadedUses(n)

\* The category the file gives a way: the value of its highway tag.
CategoryOf(way) == IF HasTag(way.tag, "highway") THEN FindTag(way.tag, "highway").v ELSE None

CycleOrFoot == {"cycleway", "footway"}

\* The pairs of categories C11 lets match.
MayPair(nvdb_category, osm_category) ==
    /\ nvdb_category \in CycleOrFoot => osm_category \in CycleOrFoot \cup {"track"}
    /\ nvdb_category \notin CycleOrFoot => osm_category \notin CycleOrFoot

\* The NVDB way and the OSM way of a scan's source and of another way: new
\* scans the OSM ways for an NVDB way, the other commands the reverse.
NvdbOf(source, other) == IF command = "new" THEN source ELSE other

OsmOf(source, other) == IF command = "new" THEN other ELSE source

PairAllowed(source, other) ==
    MayPair(CategoryOf(OriginalNvdbWay(NvdbOf(source, other))),
            CategoryOf(OriginalWay(OsmOf(source, other))))

\* C11: under every command, no scan scores or accepts, and no way records,
\* a pair of an NVDB cycleway or footway with an OSM way that is not a
\* cycleway, footway or track, or of an NVDB way of another category with an
\* OSM cycleway or footway.
C11_NoCrossCategory ==
    /\ \A e \in Entries :
          /\ e.match # None => PairAllowed(e.source, e.match)
          /\ \A c \in e.candidates : PairAllowed(e.source, c)
    /\ \A o \in DOMAIN ways_osm :
          Has(ways_osm[o], "nvdb_id") =>
              MayPair(CategoryOf(OriginalNvdbWay(ways_osm[o].nvdb_id)), CategoryOf(OriginalWay(o)))
    /\ \A n \in DOMAIN ways_nvdb :
          Has(ways_nvdb[n], "osm_id") =>
              MayPair(CategoryOf(OriginalNvdbWay(n)), CategoryOf(OriginalWay(ways_nvdb[n].osm_id)))

\* The ways of the other file that a scan of source could have taken but for
\* their category: scored by the nodes, they lie on the source.
OnSource(source) ==
    {other \in (IF command = "new" THEN DOMAIN ways_osm ELSE DOMAIN ways_nvdb) :
        /\ ~PairAllowed(source, other)
        /\ ways_osm[OsmOf(source, other)].nodes # <<>>
        /\ ScoreOf(OsmOf(source, other), NvdbOf(source, other)).count_distance >= min_nodes
        /\ ScoreOf(OsmOf(source, other), NvdbOf(source, other)).way_distance = 0}

\* A scan that accepted a way of a category that may pair with the source
\* while a way of a category that may not lay on the very nodes of the
\* source.
C11_Witness ==
    \E e \in Entries :
        /\ e.match # None
        /\ OnSource(e.source) # {}
        /\ OnSource(e.source) \cap e.candidates = {}

\* C12 as claimed: when the matching of replace or offset ends with no way
\* matched, the statistics are reported without a division by zero and the
\* run goes on to the transfer.
C12_ZeroMatchesReported ==
    (command \in {"replace", "offset"} /\ count_swap = 0) => pc # "ZeroDivisionError"

\* The statistics of a matching that matched a way: the run goes on.
C12_MatchesReported ==
    pc = "ZeroDivisionError" => (command \in {"replace", "offset"} /\ count_swap = 0)

=============================================================================
